---- MODULE Spec2Model ----
(***************************************************************************)
(* Contextual bandit notebook (tfrl_part1.1.ipynb): three four-armed       *)
(* bandits, a one-layer sigmoid policy trained by gradient descent, and    *)
(* the training loop with its terminal report.                             *)
(*                                                                         *)
(* Numbers.  The network works in float32.  Weights, activations and       *)
(* gradients are modelled as fixed-point integers with 24 fractional bits  *)
(* (the float32 significand), so One stands for 1.0 and one unit is 2^-24. *)
(* Every product and quotient is rounded back to that grid, as every       *)
(* float32 operation rounds to its format.  The arithmetic stays within    *)
(* 32 bits and covers weights in [0, 2), where training of a few episodes  *)
(* keeps them.  Thresholds, normal samples and eps never meet weights;     *)
(* they are kept in hundredths.                                            *)
(***************************************************************************)
EXTENDS Integers, Sequences, FiniteSets

\* ---------------------------------------------------------------- bounds
\* number of episodes of the loop (the notebook sets 10000)
MaxEpisodes == 2

\* ------------------------------------------------------------- constants
\* 1.0 on the 24-bit fixed-point grid
One == 16777216
\* learning rate lr = 1 / LrDen
LrDen == 1000
\* samples of np.random.randn, in hundredths: every threshold of the table
\* has a sample above it and one not above it, and the thresholds -5 and 0
\* have a sample equal to them
Draws == {-500, 0, 600}
\* samples of np.random.rand, in hundredths of [0, 1)
RandVals == {0, 5, 50}
\* values of eps, in hundredths: the notebook's 0.1 and no exploration
EpsValues == {0, 10}

\* ------------------------------------------------- fixed-point arithmetic
\* floor(a * b / 2^24) for a, b >= 0, without leaving 32 bits
MulFix(a, b) ==
    LET a1 == a \div 4096
        a0 == a % 4096
        b1 == b \div 4096
        b0 == b % 4096
    IN  a1 * b1 + ((a1 * b0 + a0 * b1 + ((a0 * b0) \div 4096)) \div 4096)

RECURSIVE DivDigits(_, _, _, _)
\* long division, six more bits of quotient per round
DivDigits(q, r, b, n) ==
    IF n = 0 THEN q
    ELSE DivDigits(q * 64 + ((r * 64) \div b), (r * 64) % b, b, n - 1)

\* floor(a * 2^24 / b) for 0 <= a, 0 < b
DivFix(a, b) == DivDigits(a \div b, a % b, b, 4)

RECURSIVE Horner(_, _, _)
\* 1 - x/1 (1 - x/2 (1 - x/3 ( ... ))) evaluated from the innermost factor
Horner(x, k, h) ==
    IF k = 0 THEN h ELSE Horner(x, k - 1, One - (MulFix(x, h) \div k))

\* e^(-x) for 0 <= x < 2, twelve terms of the series
ExpNeg(x) == Horner(x, 12, One)

\* tf.nn.sigmoid: 1 / (1 + e^(-x))
sigmoid(x) == DivFix(One, One + ExpNeg(x))

\* g / LrDen rounded to the nearest unit, symmetric in the sign of g
LrMul(g) ==
    IF g >= 0 THEN (g + (LrDen \div 2)) \div LrDen
    ELSE -((-g + (LrDen \div 2)) \div LrDen)

\* ------------------------------------------------------------ environment
\* contextual_bandit.bandits, in hundredths
bandits ==
    [st \in 0..2 |->
        IF st = 0 THEN [a \in 0..3 |-> IF a = 0 THEN 20 ELSE IF a = 3 THEN -500 ELSE 0]
        ELSE IF st = 1 THEN [a \in 0..3 |-> IF a = 0 THEN 10 ELSE IF a = 1 THEN -500
                                            ELSE IF a = 2 THEN 100 ELSE 25]
        ELSE [a \in 0..3 |-> IF a = 0 THEN -500 ELSE 500]]

num_bandits == Cardinality(DOMAIN bandits)
num_actions == Cardinality(DOMAIN bandits[0])

States == 0..(num_bandits - 1)
Actions == 0..(num_actions - 1)

\* mutant: the comparison admits equality
pullArmGe(st, a, result) ==
    IF result >= bandits[st][a] THEN 1 ELSE -1

\* contextual_bandit.pullArm, given the sample it drew
pullArm(st, a, result) ==
    IF result > bandits[st][a] THEN 1 ELSE -1

\* ------------------------------------------------------------------ agent
RECURSIVE ArgScan(_, _, _, _)
\* scan of a row from index k on, keeping the first index of the best
\* value seen: the greatest when gt is TRUE, the least otherwise
ArgScan(row, k, best, gt) ==
    IF k >= num_actions THEN best
    ELSE IF (gt /\ row[k] > row[best]) \/ (~gt /\ row[k] < row[best])
         THEN ArgScan(row, k + 1, k, gt)
         ELSE ArgScan(row, k + 1, best, gt)

\* np.argmax / tf.argmax: first index of the maximum
argmax(row) == ArgScan(row, 1, 0, TRUE)

\* np.argmin: first index of the minimum
argmin(row) == ArgScan(row, 1, 0, FALSE)

RECURSIVE Activate(_, _)
\* the activation applied to the entries of a row from index k on
Activate(row, k) ==
    IF k >= num_actions THEN << >>
    ELSE <<sigmoid(row[k])>> \o Activate(row, k + 1)

\* agent.output: the one-hot input selects row st of the weights and the
\* sigmoid layer is applied to each entry of it
output(w, st) ==
    LET out == Activate(w[st], 0)
    IN  [a \in Actions |-> out[a + 1]]

\* mutant: the last index of the maximum instead of the first
chosen_action_last(w, st) ==
    LET out == output(w, st)
    IN  CHOOSE k \in Actions :
            /\ \A j \in Actions : out[j] <= out[k]
            /\ \A j \in Actions : j > k => out[j] < out[k]

\* agent.chosen_action
chosen_action(w, st) == argmax(output(w, st))

\* mutant: the loss is -log(output[a]), the reward is dropped
gradient_no_reward(w, st, a, reward) ==
    LET y == sigmoid(w[st][a])
        dz == MulFix(MulFix(DivFix(One, y), y), One - y)
    IN  [st2 \in States |-> [a2 \in Actions |->
            IF st2 = st /\ a2 = a THEN -dz ELSE 0]]

\* d loss / d weights for loss = -(log(output[a]) * reward): the chain
\* 1/y (log), y (1 - y) (sigmoid), zero outside column a (slice) and
\* outside row st (one-hot input)
gradient(w, st, a, reward) ==
    LET y == sigmoid(w[st][a])
        dz == MulFix(MulFix(DivFix(One, y), y), One - y)
    IN  [st2 \in States |-> [a2 \in Actions |->
            IF st2 = st /\ a2 = a THEN -(reward * dz) ELSE 0]]

\* mutant: the loss loses its minus sign
update_ascent(w, st, a, reward) ==
    LET g == gradient(w, st, a, reward)
    IN  [st2 \in States |-> [a2 \in Actions |-> w[st2][a2] + LrMul(g[st2][a2])]]

\* mutant: the gradient of the selected cell is applied to its whole row
update_row(w, st, a, reward) ==
    LET g == gradient(w, st, a, reward)
    IN  [st2 \in States |-> [a2 \in Actions |-> w[st2][a2] - LrMul(g[st2][a])]]

\* agent.update: one step of GradientDescentOptimizer
update(w, st, a, reward) ==
    LET g == gradient(w, st, a, reward)
    IN  [st2 \in States |-> [a2 \in Actions |-> w[st2][a2] - LrMul(g[st2][a2])]]

\* tf.ones_initializer
InitWeights == [st \in States |-> [a \in Actions |-> One]]

\* lr passed to agent(...) is 1/LrDen; the episode count of the notebook
total_episodes == MaxEpisodes

\* ------------------------------------------------------------------ state
VARIABLES
    pc,            \* position in the training cell and the report cell
    eps,           \* chance of a random action, in hundredths
    i,             \* episode counter of the while loop
    cstate,        \* cBandit.state
    s,             \* state returned by getBandit
    action,        \* action of the episode
    result,        \* last sample drawn inside pullArm
    reward,        \* reward of the episode
    weights,       \* the trainable variable of the network
    ww,            \* value of the weights fetched by the training run
    total_reward,  \* score table
    a,             \* row index of the report loop
    printed,       \* lines of the report: action named and right / wrong
    n_updates,     \* history: number of runs of myAgent.update so far
    likely2        \* history: every pull on row 2 gave its likely reward

vars == <<pc, eps, i, cstate, s, action, result, reward, weights, ww,
          total_reward, a, printed, n_updates, likely2>>

\* names not yet bound hold -1 (indices) or 0 (numbers); ww, bound by the
\* first episode, starts as the initial weights
Init ==
    /\ pc = "while"
    /\ eps \in EpsValues
    /\ i = 0
    /\ cstate = 0
    /\ s = -1
    /\ action = -1
    /\ result = 0
    /\ reward = 0
    /\ weights = InitWeights
    /\ ww = InitWeights
    /\ total_reward = [st \in States |-> [k \in Actions |-> 0]]
    /\ a = 0
    /\ printed = << >>
    /\ n_updates = 0
    /\ likely2 = TRUE

\* ---------------------------------------------------------- training loop
\* mutant: the loop guard admits one more episode
WhileLe ==
    /\ pc = "while"
    /\ pc' = IF i <= total_episodes THEN "getBandit" ELSE "report"
    /\ a' = 0
    /\ UNCHANGED <<eps, i, cstate, s, action, result, reward, weights, ww,
                   total_reward, printed, n_updates, likely2>>

\* while i < total_episodes; after the loop the report cell starts at row 0
While ==
    /\ pc = "while"
    /\ pc' = IF i < total_episodes THEN "getBandit" ELSE "report"
    /\ a' = 0
    /\ UNCHANGED <<eps, i, cstate, s, action, result, reward, weights, ww,
                   total_reward, printed, n_updates, likely2>>

\* mutant: the state returned is a second draw, not the one stored
GetBanditTwoDraws ==
    /\ pc = "getBandit"
    /\ \E st \in States, st2 \in States :
          /\ cstate' = st
          /\ s' = st2
    /\ pc' = "if_eps"
    /\ UNCHANGED <<eps, i, action, result, reward, weights, ww, total_reward,
                   a, printed, n_updates, likely2>>

\* s = cBandit.getBandit(): the draw is stored in the environment and returned
GetBandit ==
    /\ pc = "getBandit"
    /\ \E st \in States :
          /\ cstate' = st
          /\ s' = cstate'
    /\ pc' = "if_eps"
    /\ UNCHANGED <<eps, i, action, result, reward, weights, ww, total_reward,
                   a, printed, n_updates, likely2>>

\* mutant: the exploration test admits equality
IfEpsLe ==
    /\ pc = "if_eps"
    /\ \E u \in RandVals :
          pc' = IF u <= eps THEN "rand_action" ELSE "net_action"
    /\ UNCHANGED <<eps, i, cstate, s, action, result, reward, weights, ww,
                   total_reward, a, printed, n_updates, likely2>>

\* if np.random.rand(1) < eps
IfEps ==
    /\ pc = "if_eps"
    /\ \E u \in RandVals :
          pc' = IF u < eps THEN "rand_action" ELSE "net_action"
    /\ UNCHANGED <<eps, i, cstate, s, action, result, reward, weights, ww,
                   total_reward, a, printed, n_updates, likely2>>

\* action = np.random.randint(cBandit.num_actions)
RandAction ==
    /\ pc = "rand_action"
    /\ \E k \in Actions : action' = k
    /\ pc' = "pullArm"
    /\ UNCHANGED <<eps, i, cstate, s, result, reward, weights, ww,
                   total_reward, a, printed, n_updates, likely2>>

\* mutant: the run that reads the action also fetches the training op
NetActionTrains ==
    /\ pc = "net_action"
    /\ action' = chosen_action(weights, s)
    /\ weights' = update(weights, s, action', 1)
    /\ pc' = "pullArm"
    /\ UNCHANGED <<eps, i, cstate, s, result, reward, ww,
                   total_reward, a, printed, n_updates, likely2>>

\* action = sess.run(myAgent.chosen_action, feed_dict={state_in: [s]})
NetAction ==
    /\ pc = "net_action"
    /\ action' = chosen_action(weights, s)
    /\ pc' = "pullArm"
    /\ UNCHANGED <<eps, i, cstate, s, result, reward, weights, ww,
                   total_reward, a, printed, n_updates, likely2>>

\* reward = cBandit.pullArm(action): the row read is cBandit.state
PullArm ==
    /\ pc = "pullArm"
    /\ \E r \in Draws :
          /\ result' = r
          /\ reward' = pullArm(cstate, action, r)
    /\ likely2' = (likely2 /\ (cstate = 2 =>
                      reward' = (IF action = 0 THEN 1 ELSE -1)))
    /\ pc' = "update"
    /\ UNCHANGED <<eps, i, cstate, s, action, weights, ww,
                   total_reward, a, printed, n_updates>>

\* _, ww = sess.run([myAgent.update, weights], feed_dict): the two fetches
\* are not ordered, so ww is the variable before or after the step
Update ==
    /\ pc = "update"
    /\ weights' = update(weights, s, action, reward)
    /\ \E fetched \in {weights, weights'} : ww' = fetched
    /\ n_updates' = n_updates + 1
    /\ pc' = "tally"
    /\ UNCHANGED <<eps, i, cstate, s, action, result, reward,
                   total_reward, a, printed, likely2>>

\* total_reward[s, action] += reward
Tally ==
    /\ pc = "tally"
    /\ total_reward' = [total_reward EXCEPT ![s][action] = @ + reward]
    /\ pc' = "incr"
    /\ UNCHANGED <<eps, i, cstate, s, action, result, reward, weights, ww,
                   a, printed, n_updates, likely2>>

\* i += 1 (the print every 500 episodes changes nothing)
Incr ==
    /\ pc = "incr"
    /\ i' = i + 1
    /\ pc' = "while"
    /\ UNCHANGED <<eps, cstate, s, action, result, reward, weights, ww,
                   total_reward, a, printed, n_updates, likely2>>

\* --------------------------------------------------------- terminal report
\* for a in range(num_bandits): the action named is np.argmax(ww[a]) + 1 and
\* it is right when np.argmax(ww[a]) == np.argmin(bandits[a])
Report ==
    /\ pc = "report"
    /\ IF a < num_bandits
       THEN /\ printed' = Append(printed,
                 [named |-> argmax(ww[a]) + 1,
                  right |-> (argmax(ww[a]) = argmin(bandits[a]))])
            /\ a' = a + 1
            /\ pc' = "report"
       ELSE /\ pc' = "done"
            /\ UNCHANGED <<a, printed>>
    /\ UNCHANGED <<eps, i, cstate, s, action, result, reward, weights, ww,
                   total_reward, n_updates, likely2>>

Next ==
    \/ While
    \/ GetBandit
    \/ IfEps
    \/ RandAction
    \/ NetAction
    \/ PullArm
    \/ Update
    \/ Tally
    \/ Incr
    \/ Report

Spec == Init /\ [][Next]_vars

TypeOK ==
    /\ pc \in {"while", "getBandit", "if_eps", "rand_action", "net_action",
               "pullArm", "update", "tally", "incr", "report", "done"}
    /\ i \in 0..total_episodes
    /\ cstate \in States
    /\ s \in States \cup {-1}
    /\ action \in Actions \cup {-1}
    /\ reward \in {-1, 0, 1}

\* ----------------------------------------------------------------- claims
\* k is the first index at which row attains its maximum
IsFirstMax(row, k) ==
    /\ \A j \in Actions : row[j] <= row[k]
    /\ \A j \in Actions : j < k => row[j] < row[k]

Shape(w) ==
    /\ DOMAIN w = States
    /\ \A st \in States : DOMAIN w[st] = Actions

\* C1: the weight matrix always has shape (3,4), and a step changes a cell
\* of it only when it is the update step and the cell is [s, action]
C1_UpdateChangesOneCell ==
    [][/\ Shape(weights) /\ Shape(weights')
       /\ \A st \in States, k \in Actions :
             weights'[st][k] # weights[st][k] =>
                 pc = "update" /\ st = s /\ k = action]_vars

C1_Witness ==
    /\ pc = "tally"
    /\ n_updates = 1
    /\ weights[s][action] # One
    /\ \A st \in States, k \in Actions :
          (st # s \/ k # action) => weights[st][k] = One

\* C2: with eps = 0 the random branch is never entered and the action the
\* episode pulls is the greedy one
C2_NoRandomActionAtEpsZero ==
    eps = 0 =>
        /\ pc # "rand_action"
        /\ pc = "pullArm" => action = chosen_action(weights, s)

C2_Witness ==
    /\ eps = 0
    /\ pc = "pullArm"
    /\ i = 1
    /\ action = 1

\* C3: the loop runs total_episodes episodes; the update has run once in the
\* current episode when the position is past it and not yet before it, so
\* the report starts after exactly total_episodes updates
C3_OneUpdatePerEpisode ==
    /\ i <= total_episodes
    /\ n_updates = i + (IF pc \in {"tally", "incr"} THEN 1 ELSE 0)
    /\ pc \in {"report", "done"} =>
          /\ i = total_episodes
          /\ n_updates = total_episodes

C3_Witness ==
    /\ pc = "done"
    /\ i = total_episodes
    /\ n_updates = total_episodes
    /\ weights # InitWeights

\* C4: the greedy step leaves weights and score table as they were, and
\* asking again for the same state gives the action it returned; no step
\* other than the update changes the weights act reads
C4_ActIsPureRead ==
    [][/\ pc = "net_action" =>
             /\ weights' = weights
             /\ total_reward' = total_reward
             /\ action' = chosen_action(weights', s)
       /\ pc # "update" => weights' = weights]_vars

C4_Witness ==
    /\ eps = 0
    /\ pc = "pullArm"
    /\ weights # InitWeights
    /\ action = chosen_action(weights, s)
    /\ action # 0

\* C5: after a pull the reward is +1 or -1, and +1 exactly when the sample
\* is strictly greater than the threshold at (s, action)
C5_PullIsSignOfComparison ==
    pc \in {"update", "tally", "incr"} =>
        /\ reward \in {-1, 1}
        /\ (reward = 1) <=> (result > bandits[s][action])

C5_Witness ==
    /\ pc = "update"
    /\ result = bandits[s][action]
    /\ reward = -1

\* C6 as stated: when training has ended act(2) returns 0
C6_Original ==
    pc = "done" => chosen_action(weights, 2) = 0

\* C6: after any number of episodes in which every pull on row 2 gave its
\* likely reward (+1 from arm 0, -1 from arms 1 to 3), act(2) returns 0
C6_LikelyRewardsKeepArmZero ==
    (pc \in {"while", "done"} /\ likely2) => chosen_action(weights, 2) = 0

C6_Witness ==
    /\ pc = "done"
    /\ likely2
    /\ weights[2][0] > One
    /\ \E k \in Actions : weights[2][k] < One
    /\ chosen_action(weights, 2) = 0

\* C7 as stated: each line of the report names the first maximum of the
\* final weight row and is right exactly when that is the row's best arm
C7_ReportFromFinalWeights ==
    pc = "done" =>
        \A row \in States :
            /\ printed[row + 1].named = argmax(weights[row]) + 1
            /\ printed[row + 1].right =
                   (argmax(weights[row]) = argmin(bandits[row]))

\* C8: the update raises the selected weight when the reward is +1 and
\* lowers it when the reward is -1, by lr (1 - sigmoid(weight)) up to one
\* unit of rounding
C8_UpdateFollowsReward ==
    [][pc = "update" =>
          LET d == weights'[s][action] - weights[s][action]
              e == d - reward * LrMul(One - sigmoid(weights[s][action]))
          IN  /\ reward = 1 => d > 0
              /\ reward = -1 => d < 0
              /\ e \in {-1, 0, 1}]_vars

C8_Witness ==
    /\ pc = "tally"
    /\ reward = -1
    /\ n_updates = 2
    /\ weights[s][action] < One - 1

C10_PullReadsEpisodeState ==
    /\ pc \in {"if_eps", "rand_action", "net_action", "pullArm", "update",
               "tally", "incr"} => cstate = s
    /\ pc \in {"update", "tally", "incr"} =>
          reward = pullArm(s, action, result)

C10_Witness ==
    /\ pc = "incr"
    /\ i = 1
    /\ cstate = 1
    /\ s = 1
    /\ total_reward[1][action] = reward
    /\ \E k \in Actions : total_reward[0][k] # 0
====
